---- MODULE Spec2Model ----
(***************************************************************************)
(* A model of net_prof's engine (src/src/net_prof/engine.py): the rule     *)
(* matcher (load_grouping_rules, match_group_and_description), the         *)
(* collector (collect, _collect_one_interface) and the diff engine         *)
(* (summarize).                                                            *)
(*                                                                         *)
(* Text is modelled at the level of characters: a Python str is a sequence *)
(* of one-character strings, so that splitting, stripping, prefix and      *)
(* suffix tests, integer and float parsing and codepoint ordering are      *)
(* computed, not assumed.                                                  *)
(***************************************************************************)
EXTENDS Integers, Sequences, FiniteSets, TLC

VARIABLES
    \* rule matcher
    csv,          \* the rows csv.DictReader yields from grouping_rules.csv
    rules,        \* the list load_grouping_rules returned
    rpc,          \* "init" | "loaded" | "classified"
    cname,        \* the counter name last classified
    cls,          \* what match_group_and_description returned for it
    \* collector
    fs,           \* the file tree: path -> node
    disk,         \* the output file of collect
    cres,         \* the outcome of the collect call
    \* diff engine
    metrics,      \* load_lines(metrics_path)
    before_file,  \* the file at before_path
    after_file,   \* the file at after_path
    results,      \* summarize's local list of DiffEntry
    sres          \* the outcome of the summarize call

vars == <<csv, rules, rpc, cname, cls, fs, disk, cres,
          metrics, before_file, after_file, results, sres>>

rvars == <<csv, rules, rpc, cname, cls>>
cvars == <<fs, disk, cres>>
svars == <<metrics, before_file, after_file, results, sres>>

(***************************************************************************)
(* Bounds of the model.                                                    *)
(***************************************************************************)
MaxRules == 2
MaxNameLen == 2

(***************************************************************************)
(* Characters and strings.                                                 *)
(***************************************************************************)
\* ord(c) for the characters the model uses
Ord ==
    ("\n" :> 10) @@ (" " :> 32) @@ ("$" :> 36) @@ ("+" :> 43) @@ ("-" :> 45) @@
    ("." :> 46) @@
    ("0" :> 48) @@ ("1" :> 49) @@ ("2" :> 50) @@ ("3" :> 51) @@ ("4" :> 52) @@
    ("5" :> 53) @@ ("6" :> 54) @@ ("7" :> 55) @@ ("8" :> 56) @@ ("9" :> 57) @@
    ("@" :> 64) @@ ("A" :> 65) @@ ("B" :> 66) @@ ("J" :> 74) @@ ("N" :> 78) @@
    ("O" :> 79) @@ ("S" :> 83) @@
    ("^" :> 94) @@ ("_" :> 95) @@
    ("a" :> 97) @@ ("b" :> 98) @@ ("c" :> 99) @@ ("d" :> 100) @@ ("e" :> 101) @@
    ("f" :> 102) @@ ("i" :> 105) @@ ("j" :> 106) @@ ("l" :> 108) @@ ("m" :> 109) @@
    ("n" :> 110) @@ ("o" :> 111) @@ ("r" :> 114) @@ ("s" :> 115) @@ ("t" :> 116) @@
    ("v" :> 118) @@ ("x" :> 120) @@ ("y" :> 121)

\* str.lower() on one character
Lower(c) ==
    IF Ord[c] >= 65 /\ Ord[c] <= 90
    THEN CHOOSE d \in DOMAIN Ord : Ord[d] = Ord[c] + 32
    ELSE c

IsDigit(c) == Ord[c] >= 48 /\ Ord[c] <= 57

IsSpace(c) == c \in {" ", "\n"}

\* a < b for Python str: codepoint by codepoint, a proper prefix is smaller
RECURSIVE StrLess(_, _)
StrLess(a, b) ==
    IF b = <<>> THEN FALSE
    ELSE IF a = <<>> THEN TRUE
    ELSE IF Head(a) = Head(b) THEN StrLess(Tail(a), Tail(b))
    ELSE Ord[Head(a)] < Ord[Head(b)]

\* s.startswith(p)
StartsWith(s, p) == Len(p) <= Len(s) /\ SubSeq(s, 1, Len(p)) = p

\* s.endswith(p)
EndsWith(s, p) == Len(p) <= Len(s) /\ SubSeq(s, Len(s) - Len(p) + 1, Len(s)) = p

\* sorted(S) for a set of strings
RECURSIVE Sorted(_)
Sorted(S) ==
    IF S = {} THEN <<>>
    ELSE LET m == CHOOSE x \in S : \A y \in S \ {x} : StrLess(x, y)
         IN  <<m>> \o Sorted(S \ {m})

\* all strings over alphabet A of length 1..n
RECURSIVE StringsUpTo(_, _)
StringsUpTo(A, n) ==
    IF n = 0 THEN {}
    ELSE LET shorter == StringsUpTo(A, n - 1)
         IN  {<<c>> : c \in A} \cup shorter \cup
             {s \o <<c>> : s \in {t \in shorter : Len(t) = n - 1}, c \in A}

(***************************************************************************)
(* Rule matcher.                                                           *)
(***************************************************************************)
\* the pattern language of the rules: an optional leading "^", then literal
\* characters and "." (any character), and an optional trailing "$"
RECURSIVE MatchHere(_, _, _)
MatchHere(p, s, ignorecase) ==
    IF p = <<>> THEN TRUE
    ELSE IF p = <<"$">> THEN s = <<>>
    ELSE IF s = <<>> THEN FALSE
    ELSE IF \/ Head(p) = "."
            \/ Head(p) = Head(s)
            \/ ignorecase /\ Lower(Head(p)) = Lower(Head(s))
         THEN MatchHere(Tail(p), Tail(s), ignorecase)
         ELSE FALSE

\* regex.match(s): the pattern is tried at position 0 of s only
ReMatch(regex, s) ==
    MatchHere(IF regex.pattern # <<>> /\ Head(regex.pattern) = "^"
              THEN Tail(regex.pattern) ELSE regex.pattern, s, regex.ignorecase)

\* row.get(key, default) for a DictReader row
RowGet(row, key, default) == IF key \in DOMAIN row THEN row[key] ELSE default

Ungrouped == "UNGROUPED"
NoDescription == "No description"

\* load_grouping_rules: rows with an empty (or absent) Regex are left out
RECURSIVE load_grouping_rules(_)
load_grouping_rules(rows) ==
    IF rows = <<>> THEN <<>>
    ELSE LET row == Head(rows)
             pattern == RowGet(row, "Regex", <<>>)
         IN  IF pattern = <<>> THEN load_grouping_rules(Tail(rows))
             ELSE << [regex |-> [pattern |-> pattern, ignorecase |-> TRUE],
                      group |-> RowGet(row, "Counter_Group", Ungrouped),
                      description |->
                          RowGet(row, "Counter_Description", NoDescription)] >>
                  \o load_grouping_rules(Tail(rows))

\* match_group_and_description: the loop over the rules, from rule i on
RECURSIVE MatchFrom(_, _, _)
MatchFrom(counter_name, rs, i) ==
    IF i > Len(rs) THEN <<Ungrouped, NoDescription>>
    ELSE IF ReMatch(rs[i].regex, counter_name)
         THEN <<rs[i].group, rs[i].description>>
         ELSE MatchFrom(counter_name, rs, i + 1)

\* the loop without its early return: the last matching rule wins
match_group_and_description_last(counter_name, rs) ==
    LET hits == {i \in 1..Len(rs) : ReMatch(rs[i].regex, counter_name)}
        last == CHOOSE i \in hits : \A j \in hits : j <= i
    IN  IF hits = {} THEN <<Ungrouped, NoDescription>>
        ELSE <<rs[last].group, rs[last].description>>

\* match_group_and_description(counter_name, rules)
match_group_and_description(counter_name, rs) == MatchFrom(counter_name, rs, 1)

\* ---- inputs of the rule matcher
Patterns ==
    { <<>>, <<"^", "a">>, <<"a", "b">>, <<"A">>, <<".", "b">>, <<"b", "$">> }

Headers ==
    { {"Regex", "Counter_Group", "Counter_Description"}, {"Regex"} }

Labels == { <<"G1", "D1">>, <<"G2", "D2">> }

RowsOf(header) ==
    { [k \in header |->
          IF k = "Regex" THEN p
          ELSE IF k = "Counter_Group" THEN l[1] ELSE l[2]]
      : p \in Patterns, l \in Labels }

RECURSIVE SeqsUpTo(_, _)
SeqsUpTo(S, n) ==
    IF n = 0 THEN { <<>> }
    ELSE LET shorter == SeqsUpTo(S, n - 1)
         IN  shorter \cup
             {s \o <<x>> : s \in {t \in shorter : Len(t) = n - 1}, x \in S}

CounterNames == StringsUpTo({"a", "A", "b"}, MaxNameLen)

NoClass == <<"", "">>

RInit ==
    /\ csv \in UNION { SeqsUpTo(RowsOf(h), MaxRules) : h \in Headers }
    /\ rules = <<>>
    /\ rpc = "init"
    /\ cname = <<>>
    /\ cls = NoClass

LoadRules ==
    /\ rpc = "init"
    /\ rules' = load_grouping_rules(csv)
    /\ rpc' = "loaded"
    /\ UNCHANGED <<csv, cname, cls>>
    /\ UNCHANGED <<cvars, svars>>

Classify ==
    /\ rpc \in {"loaded", "classified"}
    /\ \E n \in CounterNames :
          /\ cname' = n
          /\ cls' = match_group_and_description(n, rules)
    /\ rpc' = "classified"
    /\ UNCHANGED <<csv, rules>>
    /\ UNCHANGED <<cvars, svars>>

(***************************************************************************)
(* Parsing of counter readings.                                            *)
(***************************************************************************)
\* s.strip()
RECURSIVE LStrip(_)
LStrip(s) == IF s # <<>> /\ IsSpace(Head(s)) THEN LStrip(Tail(s)) ELSE s

RECURSIVE RStrip(_)
RStrip(s) ==
    IF s # <<>> /\ IsSpace(s[Len(s)]) THEN RStrip(SubSeq(s, 1, Len(s) - 1)) ELSE s

Strip(s) == RStrip(LStrip(s))

\* s.find(c, k - 1) + 1: the 1-based position of the first c in s at or after
\* position k, 0 when there is none
RECURSIVE FindFrom(_, _, _)
FindFrom(s, c, k) ==
    IF k > Len(s) THEN 0
    ELSE IF s[k] = c THEN k
    ELSE FindFrom(s, c, k + 1)

Find(s, c) == FindFrom(s, c, 1)

\* s.split(c)[0]
SplitHead(s, c) ==
    LET at == Find(s, c)
    IN  IF at = 0 THEN s ELSE SubSeq(s, 1, at - 1)

\* s.split(c, 1)[1], for s that holds c
SplitRest(s, c) == SubSeq(s, Find(s, c) + 1, Len(s))

\* s.replace(sub, "")
RECURSIVE RemoveAll(_, _)
RemoveAll(s, sub) ==
    IF s = <<>> THEN <<>>
    ELSE IF StartsWith(s, sub) THEN RemoveAll(SubSeq(s, Len(sub) + 1, Len(s)), sub)
    ELSE <<Head(s)>> \o RemoveAll(Tail(s), sub)

AllDigits(s) == s # <<>> /\ \A k \in 1..Len(s) : IsDigit(s[k])

RECURSIVE DigitsVal(_)
DigitsVal(s) ==
    IF s = <<>> THEN 0
    ELSE 10 * DigitsVal(SubSeq(s, 1, Len(s) - 1)) + (Ord[s[Len(s)]] - 48)

HasSign(s) == s # <<>> /\ Head(s) \in {"+", "-"}
Unsigned(s) == IF HasSign(s) THEN Tail(s) ELSE s

\* int(s): surrounding whitespace and one sign are accepted; ok = FALSE stands
\* for ValueError
ParseInt(s) ==
    LET t == Strip(s)
        d == Unsigned(t)
    IN  IF AllDigits(d)
        THEN [ok |-> TRUE,
              val |-> IF t # <<>> /\ Head(t) = "-" THEN 0 - DigitsVal(d)
                      ELSE DigitsVal(d)]
        ELSE [ok |-> FALSE, val |-> 0]

RECURSIVE LowerStr(_)
LowerStr(s) == IF s = <<>> THEN <<>> ELSE <<Lower(Head(s))>> \o LowerStr(Tail(s))

RECURSIVE Zeros(_)
Zeros(n) == IF n <= 0 THEN <<>> ELSE <<"0">> \o Zeros(n - 1)

RECURSIVE StripZeros(_)
StripZeros(s) == IF s # <<>> /\ Head(s) = "0" THEN StripZeros(Tail(s)) ELSE s

None == [kind |-> "None"]

\* the value of mantissa ipart.fpart scaled by 10^e, as the digits of its
\* integer part and of its fraction
Scaled(neg, ipart, fpart, e, pad) ==
    [kind |-> "finite", neg |-> neg,
     int |-> StripZeros(IF e >= 0
                        THEN ipart \o SubSeq(fpart \o Zeros(e - Len(fpart)), 1, e)
                        ELSE SubSeq(ipart, 1, Len(ipart) + e)),
     frac |-> IF e >= 0
              THEN SubSeq(fpart, e + 1, Len(fpart))
              ELSE SubSeq(pad \o ipart, Len(pad \o ipart) + e + 1, Len(pad \o ipart))
                   \o fpart]

\* the float with mantissa ipart[.fpart] and exponent literal ex (<<>> when
\* there is no "e")
Decimal(neg, ipart, fpart, hasexp, extext, ex) ==
    IF /\ ipart \o fpart # <<>>
       /\ \A k \in 1..Len(ipart) : IsDigit(ipart[k])
       /\ \A k \in 1..Len(fpart) : IsDigit(fpart[k])
       /\ ~hasexp \/ (ex.ok /\ extext = Strip(extext))
    THEN Scaled(neg, ipart, fpart, ex.val, Zeros(0 - ex.val - Len(ipart)))
    ELSE [kind |-> "error"]

Mantissa(neg, mant, hasexp, extext) ==
    Decimal(neg, SplitHead(mant, "."),
            IF Find(mant, ".") = 0 THEN <<>> ELSE SplitRest(mant, "."),
            hasexp, extext,
            IF hasexp THEN ParseInt(extext) ELSE [ok |-> TRUE, val |-> 0])

UnsignedFloat(neg, u) ==
    IF u \in {<<"n", "a", "n">>} THEN [kind |-> "nan"]
    ELSE IF u \in {<<"i", "n", "f">>, <<"i", "n", "f", "i", "n", "i", "t", "y">>}
         THEN [kind |-> "inf", neg |-> neg]
    ELSE Mantissa(neg, SplitHead(u, "e"), Find(u, "e") # 0,
                  IF Find(u, "e") # 0 THEN SplitRest(u, "e") ELSE <<>>)

SignedFloat(t) == UnsignedFloat(t # <<>> /\ Head(t) = "-", Unsigned(t))

\* float(s), for the literals [sign] digits [. digits] [e [sign] digits],
\* [sign] inf and [sign] nan; kind "error" stands for ValueError. A finite value
\* is kept exactly: the digits of its integer part and of its fraction.
ParseFloat(s) == SignedFloat(LowerStr(Strip(s)))

\* a <= b for two non-negative integers written without leading zeros
DigitsLeq(a, b) == Len(a) < Len(b) \/ (Len(a) = Len(b) /\ (a = b \/ StrLess(a, b)))

\* the last second of year 9999 and the first of year 1, as epoch seconds
MaxEpoch == <<"2", "5", "3", "4", "0", "2", "3", "0", "0", "7", "9", "9">>
MinEpoch == <<"6", "2", "1", "3", "5", "5", "9", "6", "8", "0", "0">>

\* the widest decimal a 64-bit time_t holds
TimeTDigits == 19

\* datetime.fromtimestamp(ts, timezone.utc).isoformat(): the exception it
\* raises, or "" when ts is in the range of datetime. The calendar rendering
\* itself is kept as the instant it denotes.
FromTimestampExc(ts) ==
    IF ts.kind = "nan" THEN "ValueError"
    ELSE IF ts.kind = "inf" THEN "OverflowError"
    ELSE IF Len(ts.int) >= TimeTDigits THEN "OverflowError"
    ELSE IF DigitsLeq(ts.int, IF ts.neg THEN MinEpoch ELSE MaxEpoch) THEN ""
    ELSE "ValueError"

IsoFormat(ts) == [kind |-> "utc", neg |-> ts.neg, seconds |-> ts.int, frac |-> ts.frac]

(***************************************************************************)
(* The file tree. A path is the sequence of its components (after          *)
(* os.path.normpath); fs maps each existing path to its node.              *)
(***************************************************************************)
DirNode == [kind |-> "dir", content |-> <<>>]
FileNode(c) == [kind |-> "file", content |-> c]

isdir(f, p) == p \in DOMAIN f /\ f[p].kind = "dir"
isfile(f, p) == p \in DOMAIN f /\ f[p].kind = "file"

\* os.listdir(p), as a set: the order the OS gives is arbitrary
listdir(f, p) ==
    { q[Len(q)] : q \in {r \in DOMAIN f : Len(r) = Len(p) + 1 /\ SubSeq(r, 1, Len(p)) = p} }

basename(p) == IF p = <<>> THEN <<>> ELSE p[Len(p)]
dirname(p) == IF p = <<>> THEN <<>> ELSE SubSeq(p, 1, Len(p) - 1)

cxi == <<"c", "x", "i">>
device == <<"d", "e", "v", "i", "c", "e">>
telemetry == <<"t", "e", "l", "e", "m", "e", "t", "r", "y">>

\* re.match(r"cxi\d+", s): a prefix of s is cxi and one digit at least
MatchCxi(s) == StartsWith(s, cxi) /\ Len(s) > Len(cxi) /\ IsDigit(s[Len(cxi) + 1])

\* re.fullmatch(r"cxi\d+", s)
FullmatchCxi(s) == StartsWith(s, cxi) /\ AllDigits(SubSeq(s, Len(cxi) + 1, Len(s)))

(***************************************************************************)
(* Collector.                                                              *)
(***************************************************************************)
\* the files of a directory, in the order of sorted()
FilesOf(f, dir) == Sorted({n \in listdir(f, dir) : isfile(f, dir \o <<n>>)})

\* lines 92-108: the record of a reading whose value parsed, or the exception
\* fromtimestamp raises
MakeRecord(interface_id, filename, idx, value, timestamp, exc, gd) ==
    IF exc # "" THEN [act |-> "raise", exc |-> exc]
    ELSE [act |-> "record",
          record |-> [id |-> idx,
                      interface |-> interface_id,
                      counter_name |-> filename,
                      value |-> value,
                      timestamp |-> timestamp,
                      timestamp_ISO_8601 |->
                          IF timestamp = None THEN None ELSE IsoFormat(timestamp),
                      group |-> gd[1],
                      description |-> gd[2]]]

\* lines 86-89: timestamp is float(timestamp_str), or None
Timestamp(parsed) == IF parsed.kind = "error" THEN None ELSE parsed

Stamped(interface_id, rs, filename, idx, value, timestamp) ==
    MakeRecord(interface_id, filename, idx, value, timestamp,
               IF timestamp = None THEN "" ELSE FromTimestampExc(timestamp),
               match_group_and_description(filename, rs))

\* lines 82-89: the two halves of the reading, parsed
ReadParts(interface_id, rs, filename, idx, value, timestamp_str) ==
    IF ~value.ok THEN [act |-> "skip"]
    ELSE Stamped(interface_id, rs, filename, idx, value.val,
                 Timestamp(ParseFloat(timestamp_str)))

ReadRaw(interface_id, rs, filename, idx, raw) ==
    IF Find(raw, "@") = 0 THEN [act |-> "skip"]
    ELSE ReadParts(interface_id, rs, filename, idx,
                   ParseInt(SplitHead(raw, "@")), SplitRest(raw, "@"))

\* one turn of the loop of _collect_one_interface, for the file at position
\* idx: "skip" (continue), "raise" (an exception leaves the loop) or "record"
ReadCounter(f, telemetry_dir, interface_id, rs, filename, idx) ==
    ReadRaw(interface_id, rs, filename, idx,
            Strip(f[telemetry_dir \o <<filename>>].content))

\* what the loop yields when this turn yields step and the later turns rest
Turn(step, rest) ==
    IF step.act = "raise" THEN [exc |-> step.exc, collected |-> <<>>]
    ELSE IF step.act = "skip" THEN rest
    ELSE IF rest.exc # "" THEN rest
    ELSE [exc |-> "", collected |-> <<step.record>> \o rest.collected]

\* the loop of _collect_one_interface from position idx on
RECURSIVE CollectFrom(_, _, _, _, _, _)
CollectFrom(f, telemetry_dir, interface_id, rs, files, idx) ==
    IF idx > Len(files) THEN [exc |-> "", collected |-> <<>>]
    ELSE Turn(ReadCounter(f, telemetry_dir, interface_id, rs, files[idx], idx),
              CollectFrom(f, telemetry_dir, interface_id, rs, files, idx + 1))

\* _collect_one_interface: the grouping rules are loaded from the packaged csv
collect_one_interface(f, rows, telemetry_dir, interface_id) ==
    CollectFrom(f, telemetry_dir, interface_id, load_grouping_rules(rows),
                FilesOf(f, telemetry_dir), 1)

\* the interface number of a directory name: int(name.replace("cxi", "")) + 1
IfaceNum(name) ==
    LET n == ParseInt(RemoveAll(name, cxi))
    IN  [ok |-> n.ok, val |-> n.val + 1]

\* lines 158-159: all_entries extended by one interface's records
Extend(one, rest) ==
    IF one.exc # "" THEN [exc |-> one.exc, all_entries |-> <<>>, found_any |-> TRUE]
    ELSE IF rest.exc # "" THEN rest
    ELSE [exc |-> "", all_entries |-> one.collected \o rest.all_entries,
          found_any |-> TRUE]

\* lines 147-155: the entries the loop passes over
Skipped(f, entry, telemetry_dir) ==
    \/ ~FullmatchCxi(entry)
    \/ ~isdir(f, telemetry_dir)
    \/ FilesOf(f, telemetry_dir) = <<>>

\* the loop of multi-interface mode over the sorted entries, from position k on
RECURSIVE ScanFrom(_, _, _, _, _)
ScanFrom(f, rows, input_path, entries, k) ==
    IF k > Len(entries) THEN [exc |-> "", all_entries |-> <<>>, found_any |-> FALSE]
    ELSE IF Skipped(f, entries[k], input_path \o <<entries[k], device, telemetry>>)
         THEN ScanFrom(f, rows, input_path, entries, k + 1)
         ELSE Extend(collect_one_interface(
                         f, rows, input_path \o <<entries[k], device, telemetry>>,
                         IfaceNum(entries[k]).val),
                     ScanFrom(f, rows, input_path, entries, k + 1))

Raised(exc, at) == [status |-> "raised", exc |-> exc, at |-> at, all_entries |-> <<>>]
Returned(all_entries) ==
    [status |-> "ok", exc |-> "", at |-> "", all_entries |-> all_entries]

\* 2A) single-interface mode, past the check for files
Single(num, single) ==
    IF ~num.ok THEN Raised("ValueError", "int")
    ELSE IF single.exc # "" THEN Raised(single.exc, "fromtimestamp")
    ELSE Returned(single.collected)

\* 2B) multi-interface mode
Multi(multi) ==
    IF multi.exc # "" THEN Raised(multi.exc, "fromtimestamp")
    ELSE IF ~multi.found_any THEN Raised("ValueError", "no telemetry")
    ELSE Returned(multi.all_entries)

Shaped(f, rows, input_path, grandparent, num) ==
    IF basename(input_path) = telemetry /\ MatchCxi(grandparent)
    THEN IF FilesOf(f, input_path) = <<>> THEN Raised("ValueError", "no files")
         ELSE Single(num, collect_one_interface(f, rows, input_path, num.val))
    ELSE IF \E d \in listdir(f, input_path) : FullmatchCxi(d)
    THEN Multi(ScanFrom(f, rows, input_path, Sorted(listdir(f, input_path)), 1))
    ELSE Raised("ValueError", "neither")

\* collect, up to the write: what it raises, or the entries it is about to write
Gather(f, rows, input_path) ==
    IF ~isdir(f, input_path) THEN Raised("ValueError", "not a directory")
    ELSE Shaped(f, rows, input_path, basename(dirname(dirname(input_path))),
                IfaceNum(basename(dirname(dirname(input_path)))))

\* the output file written whatever the outcome
WriteAlways(out, outcome) == [exists |-> TRUE, data |-> outcome.all_entries]

\* step 3 of collect: the output file, written only when nothing was raised
WriteOutput(out, outcome) ==
    IF outcome.status = "ok"
    THEN [exists |-> TRUE, data |-> outcome.all_entries]
    ELSE out

\* ---- inputs of the collector
Root == << <<"r">> >>
cxi0 == cxi \o <<"0">>
cxi2 == cxi \o <<"2">>
cxi10 == cxi \o <<"1", "0">>
lo == <<"l", "o">>

FileNames == { <<"a", "b">>, <<"b">>, <<"B">> }

\* readings: well-formed, fractional and negative, no separator, no integer
\* value, no numeric timestamp, a NaN timestamp, a timestamp past year 9999
Contents ==
    { <<"5", "@", "7", "\n">>,
      <<"-", "1", "2", "@", "1", ".", "5", "e", "3">>,
      <<"5">>,
      <<"x", "@", "7">>,
      <<"5", "@", "x">>,
      <<"5", "@", "n", "a", "n">>,
      <<"7", "@", "9", "e", "1", "1">> }

FileMaps(n) ==
    UNION { [names -> Contents] :
            names \in {ns \in SUBSET FileNames : Cardinality(ns) <= n} }

\* the nodes of one entry of the root directory
EntryNodes(e, shape) ==
    LET here == Root \o <<e>>
        tdir == here \o <<device, telemetry>>
    IN  IF shape.kind = "absent" THEN {}
        ELSE IF shape.kind = "file" THEN { <<here, FileNode(<<>>)>> }
        ELSE IF shape.kind = "bare" THEN { <<here, DirNode>> }
        ELSE { <<here, DirNode>>, <<here \o <<device>>, DirNode>>, <<tdir, DirNode>> }
             \cup { <<tdir \o <<n>>, FileNode(shape.files[n])>> : n \in DOMAIN shape.files }
             \cup (IF shape.sub THEN { <<tdir \o <<lo>>, DirNode>> } ELSE {})

TreeOf(shapes) ==
    LET nodes == { <<Root, DirNode>>, <<Root \o <<lo>>, DirNode>> }
                 \cup UNION { EntryNodes(e, shapes[e]) : e \in DOMAIN shapes }
    IN  [p \in {n[1] : n \in nodes} |-> (CHOOSE n \in nodes : n[1] = p)[2]]

MaxFiles == 2

\* one interface directory, any readings in it
OneInterfaceTrees ==
    { TreeOf(cxi0 :> [kind |-> "telemetry", files |-> fm, sub |-> sub]) :
      fm \in FileMaps(MaxFiles), sub \in BOOLEAN }

Shapes ==
    { [kind |-> "absent"], [kind |-> "file"], [kind |-> "bare"],
      [kind |-> "telemetry", files |-> <<>>, sub |-> TRUE],
      [kind |-> "telemetry", sub |-> FALSE,
       files |-> (<<"b">> :> <<"5", "@", "7", "\n">>)],
      [kind |-> "telemetry", sub |-> FALSE,
       files |-> (<<"b">> :> <<"9", "@", "x">>) @@ (<<"a", "b">> :> <<"5">>)
                 @@ (<<"B">> :> <<"3", "@", "7">>)] }

\* several interface directories, each in one of a few shapes
ManyInterfaceTrees == { TreeOf(sh) : sh \in [{cxi0, cxi2, cxi10} -> Shapes] }

InputPaths ==
    { Root, Root \o <<cxi0>>, Root \o <<cxi0, device>>,
      Root \o <<cxi0, device, telemetry>>,
      Root \o <<cxi2, device, telemetry>>,
      Root \o <<cxi0, device, telemetry, <<"b">> >>,
      Root \o << <<"x">> >> }

\* grouping_rules.csv as packaged with the module
DataCsv ==
    << [Regex |-> <<"^", "a">>, Counter_Group |-> "G1", Counter_Description |-> "D1"],
       [Regex |-> <<"b">>, Counter_Group |-> "G2", Counter_Description |-> "D2"] >>

StaleRecord ==
    [id |-> 1, interface |-> 1, counter_name |-> <<"o", "l", "d">>, value |-> 1,
     timestamp |-> None, timestamp_ISO_8601 |-> None,
     group |-> Ungrouped, description |-> NoDescription]

CInit ==
    /\ fs \in OneInterfaceTrees \cup ManyInterfaceTrees
    /\ disk \in { [exists |-> FALSE, data |-> <<>>],
                  [exists |-> TRUE, data |-> <<StaleRecord>>] }
    /\ cres = [status |-> "none"]

\* one run of collect(input_path, output_file)
Collect ==
    /\ cres.status = "none"
    /\ \E input_path \in InputPaths :
          \E outcome \in {Gather(fs, csv, input_path)} :
              /\ disk' = WriteOutput(disk, outcome)
              /\ cres' = [status |-> outcome.status, exc |-> outcome.exc,
                          at |-> outcome.at, all_entries |-> outcome.all_entries,
                          input_path |-> input_path, out_before |-> disk]
    /\ UNCHANGED fs
    /\ UNCHANGED <<rvars, svars>>

(***************************************************************************)
(* Diff engine.                                                            *)
(***************************************************************************)
\* the position after the token that starts at position k of s
RECURSIVE WordEnd(_, _)
WordEnd(s, k) == IF k > Len(s) \/ IsSpace(s[k]) THEN k ELSE WordEnd(s, k + 1)

\* raw.strip().split(): the whitespace-separated tokens of s from position k on
RECURSIVE SplitWordsFrom(_, _)
SplitWordsFrom(s, k) ==
    IF k > Len(s) THEN <<>>
    ELSE IF IsSpace(s[k]) THEN SplitWordsFrom(s, k + 1)
    ELSE <<SubSeq(s, k, WordEnd(s, k) - 1)>> \o SplitWordsFrom(s, WordEnd(s, k))

SplitWords(s) == SplitWordsFrom(s, 1)

\* parse_metric_name: the last token of the line (the subscript raises
\* IndexError when the line holds no token)
HasToken(raw) == \E k \in 1..Len(raw) : ~IsSpace(raw[k])

parse_metric_name(raw) ==
    LET words == SplitWords(raw)
    IN  words[Len(words)]

\* parse_counter: int(raw.split('@')[0])
parse_counter(raw) == ParseInt(SplitHead(raw, "@"))

\* path.lower().endswith('.json')
IsJsonPath(path) == EndsWith(LowerStr(path), <<".", "j", "s", "o", "n">>)

num_interfaces == 8
TopN == 20
important_ids ==
    <<17, 18, 22, 839, 835, 869, 873, 564, 565, 613, 614, 1600, 1599, 1598, 1597, 1724>>

Abs(x) == IF x < 0 THEN 0 - x ELSE x

\* the same scan, going on to the last match
RECURSIVE NextValueLast(_, _, _, _)
NextValueLast(lst, metric_name, iface, k) ==
    IF k > Len(lst) THEN 0
    ELSE LET later == {j \in (k + 1)..Len(lst) :
                          /\ EndsWith(lst[j].counter_name, metric_name)
                          /\ lst[j].interface = iface}
         IN  IF /\ EndsWith(lst[k].counter_name, metric_name)
                /\ lst[k].interface = iface
                /\ later = {}
             THEN lst[k].value
             ELSE NextValueLast(lst, metric_name, iface, k + 1)

\* next((e['value'] for e in lst if e['counter_name'].endswith(metric_name)
\*       and e['interface'] == iface), 0), scanning from position k
RECURSIVE NextValue(_, _, _, _)
NextValue(lst, metric_name, iface, k) ==
    IF k > Len(lst) THEN 0
    ELSE IF EndsWith(lst[k].counter_name, metric_name) /\ lst[k].interface = iface
         THEN lst[k].value
         ELSE NextValue(lst, metric_name, iface, k + 1)

\* the two counters added
DiffSum(cnt_before, cnt_after) == cnt_after + cnt_before

\* diff = cnt_after - cnt_before
Diff(cnt_before, cnt_after) == cnt_after - cnt_before

\* cnt_before or cnt_after of legacy mode: parse_counter(lines[idx]), or the
\* exception the subscript or the parse raises
FlatValue(lines, idx) ==
    LET parsed == parse_counter(lines[idx + 1])
    IN  IF idx >= Len(lines) THEN [exc |-> "IndexError", val |-> 0]
        ELSE IF ~parsed.ok THEN [exc |-> "ValueError", val |-> 0]
        ELSE [exc |-> "", val |-> parsed.val]

\* cnt_before or cnt_after: by name in structured mode, by position otherwise
Lookup(is_json, file, metric_name, iface, idx) ==
    IF is_json
    THEN [exc |-> "", val |-> NextValue(file.list, metric_name, iface, 1)]
    ELSE FlatValue(file.lines, idx)

\* lines 212-218: the DiffEntry of the two counters b and a, or the exception
\* raised while looking one up
Counted(iface, m_idx, metric_name, b, a) ==
    IF b.exc # "" THEN [exc |-> b.exc]
    ELSE IF a.exc # "" THEN [exc |-> a.exc]
    ELSE [exc |-> "",
          r |-> [iface |-> iface, metric_id |-> m_idx + 1,
                 metric_name |-> metric_name, diff |-> Diff(b.val, a.val)]]

\* one turn of the inner loop of summarize: the DiffEntry of (m_idx, iface), or
\* the exception that leaves the loop
Entry(num_metrics, metric_name, is_json, bf, af, m_idx, iface) ==
    Counted(iface, m_idx, metric_name,
            Lookup(is_json, bf, metric_name, iface, (iface - 1) * num_metrics + m_idx),
            Lookup(is_json, af, metric_name, iface, (iface - 1) * num_metrics + m_idx))

\* results after a turn that yields step, the later turns yielding rest
Appended(step, rest) ==
    IF step.exc # "" THEN [exc |-> step.exc, results |-> <<>>]
    ELSE IF rest.exc # "" THEN rest
    ELSE [exc |-> "", results |-> <<step.r>> \o rest.results]

\* the inner loop of summarize for metric m_idx, from interface iface on
RECURSIVE InnerLoop(_, _, _, _, _, _, _)
InnerLoop(num_metrics, metric_name, is_json, bf, af, m_idx, iface) ==
    IF iface > num_interfaces THEN [exc |-> "", results |-> <<>>]
    ELSE Appended(Entry(num_metrics, metric_name, is_json, bf, af, m_idx, iface),
                  InnerLoop(num_metrics, metric_name, is_json, bf, af, m_idx, iface + 1))

\* results after the turns of one metric (row), the later metrics yielding rest
Rows(row, rest) ==
    IF row.exc # "" THEN row
    ELSE IF rest.exc # "" THEN rest
    ELSE [exc |-> "", results |-> row.results \o rest.results]

\* the outer loop of summarize over the catalog, from metric m_idx on
RECURSIVE Loop(_, _, _, _, _)
Loop(ms, is_json, bf, af, m_idx) ==
    IF m_idx >= Len(ms) THEN [exc |-> "", results |-> <<>>]
    ELSE IF ~HasToken(ms[m_idx + 1]) THEN [exc |-> "IndexError", results |-> <<>>]
    ELSE Rows(InnerLoop(Len(ms), parse_metric_name(ms[m_idx + 1]),
                        is_json, bf, af, m_idx, 1),
              Loop(ms, is_json, bf, af, m_idx + 1))

\* the count of increases only
CountNonZeroPositive(rs, S) ==
    Cardinality({k \in 1..Len(rs) : rs[k].iface \in S /\ rs[k].diff > 0})

\* sum(1 for r in results if r['iface'] in S and r['diff'] != 0)
CountNonZero(rs, S) == Cardinality({k \in 1..Len(rs) : rs[k].iface \in S /\ rs[k].diff # 0})

\* the key without abs
SortKeySigned(r) == r.diff

\* key=lambda r: abs(r['diff'])
SortKey(r) == Abs(r.diff)

\* list.sort(key=..., reverse=True): stable, equal keys keep their order
RECURSIVE InsertDesc(_, _)
InsertDesc(sorted, x) ==
    IF sorted = <<>> THEN <<x>>
    ELSE IF SortKey(Head(sorted)) >= SortKey(x)
         THEN <<Head(sorted)>> \o InsertDesc(Tail(sorted), x)
         ELSE <<x>> \o sorted

RECURSIVE SortDesc(_)
SortDesc(rs) ==
    IF rs = <<>> THEN <<>>
    ELSE InsertDesc(SortDesc(SubSeq(rs, 1, Len(rs) - 1)), rs[Len(rs)])

\* iface_rs[:20] of the sorted entries of interface i
Top20(rs, i) ==
    LET iface_rs == SortDesc(SelectSeq(rs, LAMBDA r : r.iface = i))
    IN  SubSeq(iface_rs, 1, IF Len(iface_rs) < TopN THEN Len(iface_rs) ELSE TopN)

InList(x, lst) == \E k \in 1..Len(lst) : lst[k] = x

\* the pivot holding, for every interface, the diff of the first entry met
PivotFirstIface(rs) ==
    LET mids == {rs[k].metric_id : k \in {j \in 1..Len(rs) : InList(rs[j].metric_id, important_ids)}}
    IN  [mid \in mids |->
            [metric_name |-> rs[CHOOSE k \in 1..Len(rs) : rs[k].metric_id = mid].metric_name,
             diffs |-> [i \in {rs[k].iface : k \in {j \in 1..Len(rs) : rs[j].metric_id = mid}}
                        |-> rs[CHOOSE k \in 1..Len(rs) : rs[k].metric_id = mid].diff]]]

\* the pivot loop: a row per allow-listed metric_id met in results, named by
\* the first entry met, holding each interface's diff
Pivot(rs) ==
    LET mids == {rs[k].metric_id : k \in {j \in 1..Len(rs) : InList(rs[j].metric_id, important_ids)}}
        first(mid) == CHOOSE k \in 1..Len(rs) :
                         rs[k].metric_id = mid /\ \A j \in 1..(k - 1) : rs[j].metric_id # mid
    IN  [mid \in mids |->
            [metric_name |-> rs[first(mid)].metric_name,
             diffs |-> [i \in {rs[k].iface : k \in {j \in 1..Len(rs) : rs[j].metric_id = mid}}
                        |-> rs[CHOOSE k \in 1..Len(rs) :
                                  /\ rs[k].metric_id = mid /\ rs[k].iface = i
                                  /\ \A j \in (k + 1)..Len(rs) :
                                        ~(rs[j].metric_id = mid /\ rs[j].iface = i)].diff]]]

SRaised(exc, at) == [status |-> "raised", exc |-> exc, at |-> at, results |-> <<>>]

\* lines 219-244: the summary of the entries rs
Summary(rs, collected) ==
    [status |-> "ok", exc |-> "", at |-> "",
     results |-> rs,
     total_non_zero |-> CountNonZero(rs, 1..num_interfaces),
     non_zero_per_iface |-> [i \in 1..num_interfaces |-> CountNonZero(rs, {i})],
     top20_per_iface |-> [i \in 1..num_interfaces |-> Top20(rs, i)],
     important_metrics |-> Pivot(rs),
     collected |-> collected]

Looped(loop, collected) ==
    IF loop.exc # "" THEN SRaised(loop.exc, "loop")
    ELSE Summary(loop.results, collected)

\* lines 188-244, is_json being known
Loaded(ms, is_json, bf, af) ==
    IF is_json /\ (bf.kind # "json" \/ af.kind # "json")
    THEN SRaised("ValueError", "json.load")
    ELSE Looped(Loop(ms, is_json, bf, af, 0), IF is_json THEN bf.list ELSE <<>>)

\* summarize(before_path, after_path, metrics_path)
summarize(ms, bf, af) ==
    Loaded(ms, IsJsonPath(bf.path) /\ IsJsonPath(af.path), bf, af)

MaxMetrics == 22
MaxSeed == 1

\* str(n) for n >= 0
RECURSIVE Digits(_)
Digits(n) ==
    IF n < 10 THEN <<CHOOSE c \in DOMAIN Ord : Ord[c] = 48 + n>>
    ELSE Digits(n \div 10) \o <<CHOOSE c \in DOMAIN Ord : Ord[c] = 48 + (n % 10)>>

\* str(v)
IntStr(v) == IF v < 0 THEN <<"-">> \o Digits(0 - v) ELSE Digits(v)

\* metrics.txt with n lines; the display name of metric k is the decimal k,
\* alone on its line ("bare") or after a label, between blanks ("labelled");
\* with style "gap" the last line is blank
Catalog(n, style) ==
    [k \in 1..n |->
        IF style = "gap" /\ k = n THEN <<" ">>
        ELSE IF style = "labelled" THEN <<" ", "m", " ", " ">> \o Digits(k) \o <<" ">>
        ELSE Digits(k)]

CounterValues == <<0, 4, 5, 9, -2>>

\* the counter at 0-based position idx of the flat dump numbered seed
ValueAt(idx, seed) ==
    CounterValues[((idx * (seed + 1) + seed * seed) % Len(CounterValues)) + 1]

\* a line of a flat dump: value@timestamp, or the value alone
FlatLine(v) == IF v = 9 THEN IntStr(v) ELSE IntStr(v) \o <<"@", "7">>

FlatDump(n, seed) == [k \in 1..n |-> FlatLine(ValueAt(k - 1, seed))]

TextFile(path, lines) == [path |-> path, kind |-> "text", lines |-> lines, list |-> <<>>]
JsonFile(path, list) == [path |-> path, kind |-> "json", lines |-> <<>>, list |-> list]

BeforeTxt == <<"b", ".", "t", "x", "t">>
AfterTxt == <<"a", ".", "t", "x", "t">>
BeforeJson == <<"b", ".", "j", "s", "o", "n">>
AfterJson == <<"a", ".", "J", "S", "O", "N">>

Defects ==
    { "none", "after short", "before short", "both long", "bad first",
      "blank last", "named json" }

\* a pair of flat dumps for a catalog of n metrics, with one defect
FlatPair(n, sb, sa, defect) ==
    LET full == num_interfaces * n
        b == FlatDump(full, sb)
        a == FlatDump(full, sa)
    IN  IF defect = "after short"
        THEN <<TextFile(BeforeTxt, b), TextFile(AfterTxt, SubSeq(a, 1, full - 1))>>
        ELSE IF defect = "before short"
        THEN <<TextFile(BeforeTxt, SubSeq(b, 1, full - n)), TextFile(AfterTxt, a)>>
        ELSE IF defect = "both long"
        THEN <<TextFile(BeforeTxt, b \o <<FlatLine(9)>>),
               TextFile(AfterTxt, a \o <<FlatLine(4)>>)>>
        ELSE IF defect = "bad first"
        THEN <<TextFile(BeforeTxt, [b EXCEPT ![1] = <<"x", "@", "7">>]),
               TextFile(AfterTxt, a)>>
        ELSE IF defect = "blank last"
        THEN <<TextFile(BeforeTxt, b), TextFile(AfterTxt, [a EXCEPT ![full] = <<>>])>>
        ELSE IF defect = "named json"
        THEN <<TextFile(BeforeJson, b), TextFile(AfterJson, a)>>
        ELSE <<TextFile(BeforeTxt, b), TextFile(AfterTxt, a)>>

\* well-shaped pairs of every size, and one pair for each defect and size
FlatInputs ==
    { <<Catalog(n, style)>> \o FlatPair(n, sb, sa, "none") :
      n \in 0..MaxMetrics, style \in {"bare", "labelled"},
      sb \in 0..MaxSeed, sa \in 0..MaxSeed }
    \cup
    { <<Catalog(n, "bare")>> \o FlatPair(n, 0, MaxSeed, defect) :
      n \in 1..MaxMetrics, defect \in Defects }
    \cup
    { <<Catalog(n, "gap")>> \o FlatPair(n, 0, MaxSeed, "none") : n \in 1..MaxMetrics }

\* the counters a snapshot may hold, in the order collect writes them: by
\* interface directory, then by file name
Slots ==
    << [interface |-> 1, counter_name |-> <<"1", "2">>, id |-> 1],
       [interface |-> 1, counter_name |-> <<"2">>, id |-> 2],
       [interface |-> 8, counter_name |-> <<"r", "x", "_", "1", "7">>, id |-> 1],
       [interface |-> 11, counter_name |-> <<"2">>, id |-> 1] >>

CounterRecord(slot, value) ==
    [id |-> slot.id, interface |-> slot.interface, counter_name |-> slot.counter_name,
     value |-> value, timestamp |-> None, timestamp_ISO_8601 |-> None,
     group |-> Ungrouped, description |-> NoDescription]

\* the snapshot holding the slots of mask, with the values numbered seed
RECURSIVE Snapshot(_, _, _)
Snapshot(mask, seed, k) ==
    IF k > Len(Slots) THEN <<>>
    ELSE (IF k \in mask
          THEN <<CounterRecord(Slots[k], Abs(ValueAt(k, seed)))>>
          ELSE <<>>) \o Snapshot(mask, seed, k + 1)

\* the catalog sizes at which one more counter name of Slots is a display name
StructuredSizes == {0, 2, 12, 17, MaxMetrics}

\* every pair of snapshots over Slots, and some under a catalog with a gap
StructuredInputs ==
    { <<Catalog(n, "bare"), JsonFile(BeforeJson, Snapshot(bmask, sb, 1)),
        JsonFile(AfterJson, Snapshot(amask, sa, 1))>> :
      n \in StructuredSizes,
      bmask \in SUBSET (1..Len(Slots)), amask \in SUBSET (1..Len(Slots)),
      sb \in 0..MaxSeed, sa \in 0..MaxSeed }
    \cup
    { <<Catalog(n, "gap"), JsonFile(BeforeJson, Snapshot(bmask, 0, 1)),
        JsonFile(AfterJson, Snapshot({}, 0, 1))>> :
      n \in StructuredSizes \ {0}, bmask \in SUBSET (1..Len(Slots)) }

SInit ==
    /\ \E in \in FlatInputs \cup StructuredInputs :
          /\ metrics = in[1]
          /\ before_file = in[2]
          /\ after_file = in[3]
    /\ results = <<>>
    /\ sres = [status |-> "none"]

\* one call of summarize
Summarize ==
    /\ sres.status = "none"
    /\ \E out \in {summarize(metrics, before_file, after_file)} :
          /\ results' = out.results
          /\ sres' = [f \in DOMAIN out \ {"results"} |-> out[f]]
    /\ UNCHANGED <<metrics, before_file, after_file>>
    /\ UNCHANGED <<rvars, cvars>>

\* ---- idle values of the parts a specification does not exercise
CIdle ==
    /\ fs = <<>>
    /\ disk = [exists |-> FALSE, data |-> <<>>]
    /\ cres = [status |-> "idle"]

SIdle ==
    /\ metrics = <<>>
    /\ before_file = <<>>
    /\ after_file = <<>>
    /\ results = <<>>
    /\ sres = [status |-> "idle"]

RNext == LoadRules \/ Classify

RFixed ==
    /\ csv = DataCsv /\ rules = <<>> /\ rpc = "idle" /\ cname = <<>> /\ cls = NoClass

\* the collector alone: the two other components stay as they are
InitCollect == RFixed /\ CInit /\ SIdle
SpecCollect == InitCollect /\ [][Collect]_vars

\* the diff engine alone
InitSummarize == RFixed /\ CIdle /\ SInit
SpecSummarize == InitSummarize /\ [][Summarize]_vars

\* the rule matcher alone
InitRules == RInit /\ CIdle /\ SIdle
SpecRules == InitRules /\ [][RNext]_vars

(***************************************************************************)
(* C4: first-match-wins classification.                                    *)
(***************************************************************************)
\* the literal part of a pattern: without the leading "^" and trailing "$"
PatternBody(p) ==
    LET q == IF p # <<>> /\ Head(p) = "^" THEN Tail(p) ELSE p
    IN  IF q # <<>> /\ q[Len(q)] = "$" THEN SubSeq(q, 1, Len(q) - 1) ELSE q

\* the pattern matches a prefix of the name, letters compared without case
MatchesAtStart(p, name) ==
    LET body == PatternBody(p)
    IN  /\ Len(body) <= Len(name)
        /\ \A k \in 1..Len(body) :
              body[k] = "." \/ Lower(body[k]) = Lower(name[k])
        /\ (p # <<>> /\ p[Len(p)] = "$") => Len(body) = Len(name)

Hits(name, rs) == {i \in 1..Len(rs) : MatchesAtStart(rs[i].regex.pattern, name)}

FirstHit(name, rs) == CHOOSE i \in Hits(name, rs) : \A j \in Hits(name, rs) : i <= j

\* C4, with the converse: the result is that of the lowest-index matching
\* rule, and it is ("UNGROUPED", "No description") if and only if no rule
\* matches; the rule list is left as loaded.
C4_FirstMatchIff ==
    rpc = "classified" =>
        /\ rules = load_grouping_rules(csv)
        /\ Hits(cname, rules) # {} =>
              cls = <<rules[FirstHit(cname, rules)].group,
                      rules[FirstHit(cname, rules)].description>>
        /\ (cls = <<Ungrouped, NoDescription>>) <=> (Hits(cname, rules) = {})

\* C4, without the converse: the result is that of the lowest-index matching
\* rule, however many later rules match; when no rule matches it is
\* ("UNGROUPED", "No description"); the rule list is left as loaded.
C4_FirstMatchWins ==
    rpc = "classified" =>
        /\ rules = load_grouping_rules(csv)
        /\ Hits(cname, rules) # {} =>
              cls = <<rules[FirstHit(cname, rules)].group,
                      rules[FirstHit(cname, rules)].description>>
        /\ Hits(cname, rules) = {} => cls = <<Ungrouped, NoDescription>>

\* two rules with different groups both match, and the name differs from the
\* pattern of the first in case
C4_Witness ==
    /\ rpc = "classified"
    /\ Cardinality(Hits(cname, rules)) >= 2
    /\ \E i, j \in Hits(cname, rules) : rules[i].group # rules[j].group
    /\ LET body == PatternBody(rules[FirstHit(cname, rules)].regex.pattern)
       IN  \E k \in 1..Len(body) : body[k] # "." /\ body[k] # cname[k]
    /\ cls = <<rules[FirstHit(cname, rules)].group,
               rules[FirstHit(cname, rules)].description>>

(***************************************************************************)
(* Properties of the collector.                                            *)
(***************************************************************************)
Collected == cres.status \in {"ok", "raised"}

HasFiles(f, dir) == \E n \in listdir(f, dir) : isfile(f, dir \o <<n>>)

\* the path is a telemetry leaf two levels under an interface directory
SingleShape(p) ==
    /\ Len(p) >= 3
    /\ p[Len(p)] = telemetry
    /\ StartsWith(p[Len(p) - 2], cxi)
    /\ Len(p[Len(p) - 2]) > Len(cxi)
    /\ IsDigit(p[Len(p) - 2][Len(cxi) + 1])

IsIfaceName(e) ==
    /\ Len(e) > Len(cxi)
    /\ SubSeq(e, 1, Len(cxi)) = cxi
    /\ \A k \in (Len(cxi) + 1)..Len(e) : IsDigit(e[k])

IfaceDirs(f, p) == {e \in listdir(f, p) : IsIfaceName(e)}

\* the four structural failures of collect
StructuralFailure(f, p) ==
    \/ ~isdir(f, p)
    \/ isdir(f, p) /\ SingleShape(p) /\ ~HasFiles(f, p)
    \/ /\ isdir(f, p) /\ ~SingleShape(p)
       /\ IfaceDirs(f, p) # {}
       /\ \A e \in IfaceDirs(f, p) :
             ~(isdir(f, p \o <<e, device, telemetry>>)
               /\ HasFiles(f, p \o <<e, device, telemetry>>))
    \/ isdir(f, p) /\ ~SingleShape(p) /\ IfaceDirs(f, p) = {}

\* C5: in each of the four structural cases collect raises ValueError and the
\* output file is left as it was: not created, not modified.
C5_StructuralFailureNoOutput ==
    (Collected /\ StructuralFailure(fs, cres.input_path)) =>
        /\ cres.status = "raised"
        /\ cres.exc = "ValueError"
        /\ disk = cres.out_before

\* multi-interface mode over interface directories that hold no reading, with
\* an output file already there
C5_Witness ==
    /\ Collected
    /\ cres.input_path = Root
    /\ IfaceDirs(fs, Root) # {}
    /\ StructuralFailure(fs, Root)
    /\ cres.status = "raised"
    /\ cres.out_before.exists
    /\ disk = cres.out_before

\* the reading holds "@" and an integer before the first "@"
Parsable(content) ==
    LET raw == Strip(content)
    IN  /\ \E k \in 1..Len(raw) : raw[k] = "@"
        /\ ParseInt(SplitHead(raw, "@")).ok

\* one telemetry directory was collected in single-interface mode
SingleRun ==
    /\ Collected
    /\ isdir(fs, cres.input_path)
    /\ SingleShape(cres.input_path)
    /\ HasFiles(fs, cres.input_path)

\* C8: collecting one telemetry directory never aborts on a file's content;
\* the output holds one record for each parsable file and none for the others,
\* each with the file's 1-based position among all files as its id, and with
\* null timestamps when the timestamp segment is no float.
C8_AnomaliesAbsorbed ==
    SingleRun =>
        LET dir == cres.input_path
            files == FilesOf(fs, dir)
            out == cres.all_entries
        IN  /\ cres.status = "ok"
            /\ disk = [exists |-> TRUE, data |-> out]
            /\ \A k \in 1..Len(files) :
                  Cardinality({j \in 1..Len(out) : out[j].counter_name = files[k]})
                      = IF Parsable(fs[dir \o <<files[k]>>].content) THEN 1 ELSE 0
            /\ \A j \in 1..Len(out) :
                  /\ out[j].id \in 1..Len(files)
                  /\ files[out[j].id] = out[j].counter_name
                  /\ (ParseFloat(SplitRest(Strip(fs[dir \o <<out[j].counter_name>>].content),
                                           "@")).kind = "error")
                        => (out[j].timestamp = None /\ out[j].timestamp_ISO_8601 = None)

\* C8 without the files whose timestamp datetime cannot hold
C8_ExceptTimestampRange ==
    (SingleRun /\ cres.at # "fromtimestamp") => C8_AnomaliesAbsorbed

\* the number an interface directory name ends with
Suffix(e) == DigitsVal(SubSeq(e, Len(cxi) + 1, Len(e)))

\* all interface directories were collected in multi-interface mode
MultiRun ==
    /\ Collected
    /\ cres.status = "ok"
    /\ ~SingleShape(cres.input_path)

\* C9: in multi-interface mode every record of cxi<k> carries interface k + 1,
\* the records come in ascending interface order, and within one interface in
\* sorted file name order.
C9_AscendingInterfaces ==
    MultiRun =>
        LET out == cres.all_entries
            p == cres.input_path
        IN  /\ \A j \in 1..Len(out) :
                  \E e \in IfaceDirs(fs, p) :
                      /\ out[j].interface = Suffix(e) + 1
                      /\ isfile(fs, p \o <<e, device, telemetry, out[j].counter_name>>)
            /\ \A i, j \in 1..Len(out) :
                  i < j => /\ out[i].interface <= out[j].interface
                           /\ out[i].interface = out[j].interface
                                 => StrLess(out[i].counter_name, out[j].counter_name)

\* C9 with the interface directories taken in the order of their names
C9_NameOrder ==
    MultiRun =>
        LET out == cres.all_entries
            p == cres.input_path
            dirOf(j) == CHOOSE e \in IfaceDirs(fs, p) : out[j].interface = Suffix(e) + 1
        IN  /\ \A j \in 1..Len(out) :
                  \E e \in IfaceDirs(fs, p) :
                      /\ out[j].interface = Suffix(e) + 1
                      /\ isfile(fs, p \o <<e, device, telemetry, out[j].counter_name>>)
            /\ \A i, j \in 1..Len(out) :
                  i < j => /\ dirOf(i) = dirOf(j) \/ StrLess(dirOf(i), dirOf(j))
                           /\ out[i].interface = out[j].interface
                                 => StrLess(out[i].counter_name, out[j].counter_name)

(***************************************************************************)
(* Properties of the diff engine.                                          *)
(***************************************************************************)
Summarized == sres.status \in {"ok", "raised"}

NumMetrics == Len(metrics)

\* every line of the catalog holds a display name
NamedCatalog ==
    \A k \in 1..Len(metrics) :
        \E j \in 1..Len(metrics[k]) : metrics[k][j] \notin {" ", "\n"}

\* both paths carry the structured extension
StructuredMode ==
    /\ IsJsonPath(before_file.path) /\ IsJsonPath(after_file.path)
    /\ before_file.kind = "json" /\ after_file.kind = "json"

LegacyMode ==
    /\ ~(IsJsonPath(before_file.path) /\ IsJsonPath(after_file.path))
    /\ before_file.kind = "text" /\ after_file.kind = "text"

\* the text before the first "@" of the line is an integer literal
HasIntegerValue(line) ==
    LET cut == IF \E k \in 1..Len(line) : line[k] = "@"
               THEN (CHOOSE k \in 1..Len(line) :
                        line[k] = "@" /\ \A j \in 1..(k - 1) : line[j] # "@") - 1
               ELSE Len(line)
        from == IF cut >= 1 /\ line[1] \in {"+", "-"} THEN 2 ELSE 1
    IN  /\ from <= cut
        /\ \A k \in from..cut : line[k] \in {"0", "1", "2", "3", "4", "5", "6", "7", "8", "9"}

\* the integer the line holds before its first "@"
IntegerValue(line) == ParseInt(SplitHead(line, "@")).val

\* the 1-based position of (interface i, 0-based metric m) in a flat dump
Position(i, m) == (i - 1) * NumMetrics + m + 1

WellFormedFlat(file) ==
    /\ Len(file.lines) = num_interfaces * NumMetrics
    /\ \A k \in 1..Len(file.lines) : HasIntegerValue(file.lines[k])

WellFormedPair ==
    /\ NamedCatalog
    /\ \/ StructuredMode
       \/ LegacyMode /\ WellFormedFlat(before_file) /\ WellFormedFlat(after_file)

\* C1: for a catalog of N display names and well-formed snapshots, summarize
\* builds exactly one DiffEntry for each (interface, metric) pair, 8 * N in
\* all, and total_non_zero counts the entries whose diff is not 0.
C1_OneEntryPerPair ==
    (Summarized /\ WellFormedPair) =>
        /\ sres.status = "ok"
        /\ Len(results) = 8 * NumMetrics
        /\ \A i \in 1..8, m \in 1..NumMetrics :
              Cardinality({k \in 1..Len(results) :
                              results[k].iface = i /\ results[k].metric_id = m}) = 1
        /\ \A k \in 1..Len(results) :
              results[k].iface \in 1..8 /\ results[k].metric_id \in 1..NumMetrics
        /\ sres.total_non_zero =
              Cardinality({k \in 1..Len(results) : results[k].diff # 0})

\* a summary of a catalog of several metrics with diffs of both signs and zero
C1_Witness ==
    /\ Summarized /\ WellFormedPair /\ sres.status = "ok"
    /\ NumMetrics >= 2
    /\ \E j, k, l \in 1..Len(results) :
          results[j].diff < 0 /\ results[k].diff > 0 /\ results[l].diff = 0
    /\ sres.total_non_zero > 0
    /\ sres.total_non_zero < Len(results)

\* the two snapshots are one and the same
SameSnapshot ==
    /\ before_file.kind = after_file.kind
    /\ before_file.lines = after_file.lines
    /\ before_file.list = after_file.list

\* C2: summarize(A, A, catalog), when it returns, has diff = 0 in every entry,
\* total_non_zero = 0 and non_zero_per_iface[i] = 0 for every interface.
C2_Idempotent ==
    (Summarized /\ sres.status = "ok" /\ SameSnapshot) =>
        /\ \A k \in 1..Len(results) : results[k].diff = 0
        /\ sres.total_non_zero = 0
        /\ \A i \in 1..8 : sres.non_zero_per_iface[i] = 0

\* a snapshot with counters that are not 0, diffed against itself
C2_Witness ==
    /\ Summarized /\ sres.status = "ok" /\ SameSnapshot
    /\ NumMetrics >= 2
    /\ \/ \E k \in 1..Len(before_file.lines) :
             HasIntegerValue(before_file.lines[k])
             /\ IntegerValue(before_file.lines[k]) # 0
       \/ \E k \in 1..Len(before_file.list) :
             /\ before_file.list[k].value # 0
             /\ before_file.list[k].interface \in 1..8
             /\ \E m \in 1..NumMetrics :
                   before_file.list[k].counter_name = parse_metric_name(metrics[m])
    /\ sres.total_non_zero = 0

\* the DiffEntry of (interface i, metric_id m)
EntryOf(i, m) ==
    results[CHOOSE k \in 1..Len(results) :
                results[k].iface = i /\ results[k].metric_id = m]

\* C3: top20_per_iface[i] holds entries of interface i only, min(20, N) of
\* them, by non-increasing |diff| and, among equal |diff|, by ascending
\* metric_id; no entry left out has a larger |diff| than one kept.
C3_Top20 ==
    (Summarized /\ sres.status = "ok") =>
        \A i \in 1..8 :
            LET top == sres.top20_per_iface[i]
                kept == {top[k].metric_id : k \in 1..Len(top)}
            IN  /\ Len(top) = IF NumMetrics < 20 THEN NumMetrics ELSE 20
                /\ \A k \in 1..Len(top) :
                      /\ top[k].iface = i
                      /\ top[k].metric_id \in 1..NumMetrics
                      /\ top[k] = EntryOf(i, top[k].metric_id)
                /\ \A k \in 1..(Len(top) - 1) :
                      /\ Abs(top[k].diff) >= Abs(top[k + 1].diff)
                      /\ Abs(top[k].diff) = Abs(top[k + 1].diff)
                            => top[k].metric_id < top[k + 1].metric_id
                /\ \A m \in (1..NumMetrics) \ kept, k \in 1..Len(top) :
                      Abs(EntryOf(i, m).diff) <= Abs(top[k].diff)

\* more than 20 metrics, so that entries are left out; one interface ranks a
\* decrease before an equal increase, another fills its list with zero diffs
C3_Witness ==
    /\ Summarized /\ sres.status = "ok"
    /\ NumMetrics > 20
    /\ \E i \in 1..8 :
          LET top == sres.top20_per_iface[i]
          IN  \E k \in 1..(Len(top) - 1) :
                 top[k].diff < 0 /\ top[k + 1].diff = 0 - top[k].diff
    /\ \E i \in 1..8 :
          /\ sres.non_zero_per_iface[i] < 20
          /\ sres.non_zero_per_iface[i] > 0
          /\ sres.top20_per_iface[i][20].diff = 0

AllowList ==
    {17, 18, 22, 839, 835, 869, 873, 564, 565, 613, 614, 1600, 1599, 1598, 1597, 1724}

\* C6: the keys of important_metrics are the allow-listed ids within 1..N; each
\* row is named by the metric's catalog name and maps each interface 1..8 to
\* the diff of that (interface, metric) entry.
C6_Pivot ==
    (Summarized /\ sres.status = "ok") =>
        /\ DOMAIN sres.important_metrics = AllowList \cap (1..NumMetrics)
        /\ \A mid \in DOMAIN sres.important_metrics :
              LET row == sres.important_metrics[mid]
              IN  /\ row.metric_name = parse_metric_name(metrics[mid])
                  /\ DOMAIN row.diffs = 1..8
                  /\ \A i \in 1..8 : row.diffs[i] = EntryOf(i, mid).diff

\* a catalog that holds some allow-listed ids and not others, with a row whose
\* diffs differ between interfaces
C6_Witness ==
    /\ Summarized /\ sres.status = "ok"
    /\ NumMetrics = 21
    /\ DOMAIN sres.important_metrics = {17, 18}
    /\ \E i, j \in 1..8 :
          sres.important_metrics[17].diffs[i] # sres.important_metrics[17].diffs[j]

\* some position summarize needs cannot be resolved, or holds no integer
Unresolvable(file) ==
    \E i \in 1..8, m \in 0..(NumMetrics - 1) :
        \/ Position(i, m) > Len(file.lines)
        \/ ~HasIntegerValue(file.lines[Position(i, m)])

\* C7: in legacy mode the values come from position (i - 1) * N + m of each
\* dump, and when a position cannot be resolved, or holds no integer, summarize
\* fails with InvalidInputError (ValueError, as collect's) and returns nothing.
C7_LegacyPositions ==
    (Summarized /\ LegacyMode) =>
        /\ (Unresolvable(before_file) \/ Unresolvable(after_file))
              => (sres.status = "raised" /\ sres.exc = "ValueError")
        /\ sres.status = "ok" =>
              \A i \in 1..8, m \in 0..(NumMetrics - 1) :
                  EntryOf(i, m + 1).diff =
                      IntegerValue(after_file.lines[Position(i, m)])
                      - IntegerValue(before_file.lines[Position(i, m)])

\* C7 with any exception in place of InvalidInputError
C7_RaisesSomething ==
    (Summarized /\ LegacyMode) =>
        /\ (Unresolvable(before_file) \/ Unresolvable(after_file))
              => (sres.status = "raised" /\ sres.exc \in {"ValueError", "IndexError"})
        /\ sres.status = "ok" =>
              \A i \in 1..8, m \in 0..(NumMetrics - 1) :
                  EntryOf(i, m + 1).diff =
                      IntegerValue(after_file.lines[Position(i, m)])
                      - IntegerValue(before_file.lines[Position(i, m)])

\* name is a suffix of s
IsSuffix(name, s) ==
    /\ Len(name) <= Len(s)
    /\ \A j \in 1..Len(name) : s[Len(s) - Len(name) + j] = name[j]

Matching(list, name, i) ==
    {j \in 1..Len(list) : IsSuffix(name, list[j].counter_name) /\ list[j].interface = i}

\* the value of the first matching record, 0 when there is none
FirstValue(list, name, i) ==
    IF Matching(list, name, i) = {} THEN 0
    ELSE list[CHOOSE j \in Matching(list, name, i) :
                 \A h \in Matching(list, name, i) : j <= h].value

\* C10: in structured mode the before and after values of (interface i,
\* metric) are those of the first record, in snapshot order, of interface i
\* whose counter_name ends with the metric's display name, 0 when there is none;
\* a missing counter raises nothing; diff = after - before. (The catalog's
\* lines each hold a display name.)
C10_StructuredLookup ==
    (Summarized /\ StructuredMode /\ NamedCatalog) =>
        /\ sres.status = "ok"
        /\ \A i \in 1..8, m \in 1..NumMetrics :
              EntryOf(i, m).diff =
                  FirstValue(after_file.list, parse_metric_name(metrics[m]), i)
                  - FirstValue(before_file.list, parse_metric_name(metrics[m]), i)

\* two records of the earlier snapshot match one (interface, metric) pair with
\* different values, and the later snapshot holds no record for it
C10_Witness ==
    /\ Summarized /\ StructuredMode /\ sres.status = "ok"
    /\ \E i \in 1..8, m \in 1..NumMetrics :
          LET name == parse_metric_name(metrics[m])
              hits == Matching(before_file.list, name, i)
          IN  /\ \E j, h \in hits : before_file.list[j].value # before_file.list[h].value
              /\ Matching(after_file.list, name, i) = {}
              /\ EntryOf(i, m).diff = 0 - FirstValue(before_file.list, name, i)
              /\ EntryOf(i, m).diff # 0

====
